---- MODULE Spec2Model ----
(***************************************************************************)
(* Model of the EBS volume manager's scanning pipeline and of its          *)
(* tenant-aware database layer.                                            *)
(*                                                                         *)
(*   lib/lambda/utils/db-connection.ts       TenantAwareDbConnection and   *)
(*                                           the schema with its policies  *)
(*   lib/lambda/scanner/secure-ebs-scanner.ts  handler, processScanRequest *)
(*   lib/stacks/scanner-stack.ts             scan queue and event source   *)
(*                                                                         *)
(* Every await of the code is one step.  A statement sent to a connection  *)
(* succeeds, fails with an SQL error (data statements only) or finds the   *)
(* connection broken; a broken connection fails every later statement.     *)
(***************************************************************************)
EXTENDS Integers, Sequences, FiniteSets, TLC

\* ------------------------------------------------------------------ bounds
NumOps == 2            \* database operations of SpecDb, possibly concurrent

\* ---------------------------------------------------------------- constants
SystemTenant == "system"       \* placeholder of updateScanStatus
NoTenant == ""                 \* value written by the reset statement
\* A field a parsed JSON object does not carry (undefined); a request without
\* its regions array.
Undefined == "undefined"
NoRegions == <<Undefined>>
max == 20                      \* new Pool({ max: 20 })
ConnIds == 1..max
OpIds == 1..NumOps

VARIABLES
  pool,          \* this.pool: 0 for null, else the Pool object it holds (the n-th created)
  conns,         \* ConnIds -> connection (session) state
  ops,           \* OpIds -> running queryWithTenant / transactionWithTenant
  pending,       \* ConnIds -> rows written in the open transaction
  ebs_volumes,   \* committed rows of ebs_volumes
  aws_accounts,  \* rows of aws_accounts
  scan_history,  \* scanId -> row of scan_history
  scanTenantScoped, \* whether scan_tenant_isolation filters scan_history
  queue,         \* scanId -> state of the message in the scan queue
  event,         \* Records of the invocation being handled
  hs             \* handler state: position and locals of the invocation

dbvars == <<pool, conns, ops, pending, ebs_volumes>>
scanvars == <<aws_accounts, scan_history, scanTenantScoped, queue, event, hs>>
vars == <<pool, conns, ops, pending, ebs_volumes, aws_accounts, scan_history,
          scanTenantScoped, queue, event, hs>>

\* ================================================================ database
\* A statement handed to client.query.  t is "selAccount" (validation and
\* getAccountInternalId), "updScan" (updateScanStatus), "upsert" (storeVolumes)
\* or "selVolumes" (a tenant's read of ebs_volumes).
Stmt(t, acct, scan, status, msg, metrics, vol, region, at) ==
  [t |-> t, acct |-> acct, scan |-> scan, status |-> status, msg |-> msg,
   metrics |-> metrics, vol |-> vol, region |-> region, at |-> at]

\* metrics of updateScanStatus: null, or {volumesFound, errors}; errors is
\* left out of the JSON when no region failed (the empty sequence here).
NoMetrics == [present |-> FALSE, volumesFound |-> 0, errors |-> <<>>]
Metrics(found, errs) == [present |-> TRUE, volumesFound |-> found, errors |-> errs]

SelAccount(acct) == Stmt("selAccount", acct, "", "", "", NoMetrics, "", "", 0)
UpdScan(scan, status, msg, metrics) ==
  Stmt("updScan", "", scan, status, msg, metrics, "", "", 0)
\* at: the time of the scan that observed the volume (scannedAt).
UpsertVolume(acct, vol, region, state, at) ==
  Stmt("upsert", acct, "", state, "", NoMetrics, vol, region, at)
SelVolumes == Stmt("selVolumes", "", "", "", "", NoMetrics, "", "", 0)

\* A session of the pool: its tenant context (app.current_tenant_id), its
\* transaction state and whether the connection is broken.
FreshConn == [state |-> "busy", ctx |-> NoTenant, tx |-> "none", broken |-> FALSE, pool |-> 0]
AbsentConn == [state |-> "absent", ctx |-> NoTenant, tx |-> "none", broken |-> FALSE, pool |-> 0]

IdleOp ==
  [pc |-> "idle", kind |-> "query", tenant |-> NoTenant, stmts |-> <<>>, i |-> 1,
   pool |-> 0, creating |-> FALSE,
   conn |-> 0, holds |-> FALSE, bound |-> FALSE, err |-> "none",
   failed |-> "none", log |-> <<>>,
   ctxs |-> {}, unbound |-> FALSE, accRows |-> {}, volRows |-> {}]

NewOp(kind, tenant, stmts) ==
  [IdleOp EXCEPT !.pc = "getPool", !.kind = kind, !.tenant = tenant, !.stmts = stmts]

\* Row-level security: a row is visible to a session iff its tenant_id equals
\* the session's app.current_tenant_id.
PolicyAdmits(tenant_id, ctx) == tenant_id = ctx

\* An upsert that replaces the existing row by the inserted one.
OnConflictReplace(old, new) == new

\* INSERT ... ON CONFLICT (tenant_id, volume_id) DO UPDATE SET state,
\* instance_id, device, attached_at, cost_per_month, tags, last_scanned_at,
\* updated_at: the observed state and the scan time stand for them.
OnConflict(old, new) ==
  [old EXCEPT !.state = new.state, !.last_scanned_at = new.last_scanned_at]

\* Variant of the upsert without the conflict clause on a table without the
\* unique constraint: every INSERT adds a row.
UpsertAlwaysInsert(rows, new) == rows \cup {new}

Upsert(rows, new) ==
  IF \E r \in rows : r.tenant_id = new.tenant_id /\ r.volume_id = new.volume_id
  THEN {IF r.tenant_id = new.tenant_id /\ r.volume_id = new.volume_id
        THEN OnConflict(r, new) ELSE r : r \in rows}
  ELSE rows \cup {new}

RECURSIVE UpsertAll(_, _)
UpsertAll(rows, news) ==
  IF news = <<>> THEN rows ELSE UpsertAll(Upsert(rows, Head(news)), Tail(news))

\* createTime: the creation time EC2 reports for a volume, the same in every
\* describe response.
CreateTime(vol) == "created-" \o vol

\* The row an upsert of storeVolumes inserts for tenant tenantId: id is the
\* default gen_random_uuid(), fresh for every INSERT; created_at is the
\* volume's createTime, last_scanned_at the scannedAt of the record.
VolumeRow(tenantId, s) ==
  [id |-> "vol-" \o tenantId \o "-" \o s.vol \o "-" \o ToString(s.at),
   tenant_id |-> tenantId, volume_id |-> s.vol, aws_account_id |-> s.acct,
   region |-> s.region, created_at |-> CreateTime(s.vol),
   state |-> s.status, last_scanned_at |-> s.at]

\* ------------------------------------------------------ control structure
\* Variants of queryWithTenant with a slip: the reset only on the success
\* path; a failing bind swallowed; the connection released before the
\* statement is sent.
queryWithTenantNextResetInTry(pc, ok) ==
  CASE pc = "getPool" -> IF ok THEN "connect" ELSE "done"
    [] pc = "connect" -> IF ok THEN "bind" ELSE "done"
    [] pc = "bind"    -> IF ok THEN "stmt" ELSE "release"
    [] pc = "stmt"    -> IF ok THEN "reset" ELSE "release"
    [] pc = "reset"   -> IF ok THEN "release" ELSE "done"
    [] pc = "release" -> "done"

queryWithTenantNextIgnoreBindFailure(pc, ok) ==
  CASE pc = "getPool" -> IF ok THEN "connect" ELSE "done"
    [] pc = "connect" -> IF ok THEN "bind" ELSE "done"
    [] pc = "bind"    -> "stmt"
    [] pc = "stmt"    -> "reset"
    [] pc = "reset"   -> IF ok THEN "release" ELSE "done"
    [] pc = "release" -> "done"

queryWithTenantNextEarlyRelease(pc, ok) ==
  CASE pc = "getPool" -> IF ok THEN "connect" ELSE "done"
    [] pc = "connect" -> IF ok THEN "bind" ELSE "done"
    [] pc = "bind"    -> IF ok THEN "release" ELSE "reset"
    [] pc = "release" -> "stmt"
    [] pc = "stmt"    -> "reset"
    [] pc = "reset"   -> "done"

\* queryWithTenant: getPool; connect; try { bind; statement }
\* finally { reset; release }.  ok tells whether the step at pc succeeded.
queryWithTenantNext(pc, ok) ==
  CASE pc = "getPool" -> IF ok THEN "connect" ELSE "done"
    [] pc = "connect" -> IF ok THEN "bind" ELSE "done"
    [] pc = "bind"    -> IF ok THEN "stmt" ELSE "reset"
    [] pc = "stmt"    -> "reset"
    [] pc = "reset"   -> IF ok THEN "release" ELSE "done"
    [] pc = "release" -> "done"

\* Variants of transactionWithTenant with a slip: the reset only on the
\* success path; the reset sent before COMMIT.
transactionWithTenantNextResetInTry(pc, ok, more) ==
  CASE pc = "getPool"  -> IF ok THEN "connect" ELSE "done"
    [] pc = "connect"  -> IF ok THEN "begin" ELSE "done"
    [] pc = "begin"    -> IF ok THEN "bind" ELSE "rollback"
    [] pc = "bind"     -> IF ok THEN "body" ELSE "rollback"
    [] pc = "body"     -> IF ok THEN (IF more THEN "body" ELSE "commit") ELSE "rollback"
    [] pc = "commit"   -> IF ok THEN "reset" ELSE "rollback"
    [] pc = "rollback" -> "release"
    [] pc = "reset"    -> IF ok THEN "release" ELSE "done"
    [] pc = "release"  -> "done"

transactionWithTenantNextResetBeforeCommit(pc, ok, more) ==
  CASE pc = "getPool"  -> IF ok THEN "connect" ELSE "done"
    [] pc = "connect"  -> IF ok THEN "begin" ELSE "done"
    [] pc = "begin"    -> IF ok THEN "bind" ELSE "rollback"
    [] pc = "bind"     -> IF ok THEN "body" ELSE "rollback"
    [] pc = "body"     -> IF ok THEN (IF more THEN "body" ELSE "reset") ELSE "rollback"
    [] pc = "reset"    -> IF ok THEN "commit" ELSE "done"
    [] pc = "commit"   -> "release"
    [] pc = "rollback" -> "reset"
    [] pc = "release"  -> "done"

\* transactionWithTenant: getPool; connect; try { BEGIN; bind; callback;
\* COMMIT } catch { ROLLBACK; throw } finally { reset; release }.  more tells
\* whether the callback has another statement to send.
transactionWithTenantNext(pc, ok, more) ==
  CASE pc = "getPool"  -> IF ok THEN "connect" ELSE "done"
    [] pc = "connect"  -> IF ok THEN "begin" ELSE "done"
    [] pc = "begin"    -> IF ok THEN "bind" ELSE "rollback"
    [] pc = "bind"     -> IF ok THEN "body" ELSE "rollback"
    [] pc = "body"     -> IF ok THEN (IF more THEN "body" ELSE "commit") ELSE "rollback"
    [] pc = "commit"   -> IF ok THEN "reset" ELSE "rollback"
    [] pc = "rollback" -> "reset"
    [] pc = "reset"    -> IF ok THEN "release" ELSE "done"
    [] pc = "release"  -> "done"

\* The exception in flight after the step at pc: a failing step throws its own
\* error, which replaces the one a catch or finally block was propagating.
Thrown(err, pc, ok) == IF ok THEN err ELSE pc

Advance(op, ok, more) ==
  [op EXCEPT !.pc = IF op.kind = "query" THEN queryWithTenantNext(op.pc, ok)
                    ELSE transactionWithTenantNext(op.pc, ok, more),
             !.err = Thrown(op.err, op.pc, ok),
             !.failed = IF ~ok /\ op.failed = "none" THEN op.pc ELSE op.failed]

\* ------------------------------------------------------------- statements
\* Outcomes of a statement sent on session cn: it succeeds ("ok"), fails with
\* an SQL error that leaves the connection usable ("sqlerr": data statements
\* and COMMIT), is rejected inside an aborted transaction, or the connection
\* breaks ("break"); a broken connection fails every later statement.
Outcomes(cn, k) ==
  IF cn.broken THEN {"broken"}
  ELSE IF cn.tx = "aborted" /\ k \notin {"COMMIT", "ROLLBACK"} THEN {"rejected", "break"}
  ELSE IF k \in {"DATA", "COMMIT"} THEN {"ok", "sqlerr", "break"}
  ELSE {"ok", "break"}

\* The session after statement k with outcome out.
ConnAfter(cn, k, out, tenant) ==
  CASE out = "break" -> [cn EXCEPT !.broken = TRUE, !.tx = "none", !.ctx = NoTenant]
    [] out \in {"broken", "rejected"} -> cn
    [] out = "sqlerr" -> [cn EXCEPT !.tx = IF k = "COMMIT" THEN "none"
                                            ELSE IF @ = "open" THEN "aborted" ELSE @]
    [] out = "ok" ->
         CASE k = "BEGIN" -> [cn EXCEPT !.tx = IF @ = "none" THEN "open" ELSE @]
           [] k = "BIND"  -> [cn EXCEPT !.ctx = tenant]
           [] k = "RESET" -> [cn EXCEPT !.ctx = NoTenant]
           [] k \in {"COMMIT", "ROLLBACK"} -> [cn EXCEPT !.tx = "none"]
           [] OTHER -> cn

\* A connection still checked out when its operation ends is never released.
Settle(op, cn) ==
  IF op.pc = "done" /\ op.holds THEN [cn EXCEPT !.state = "leaked"] ELSE cn

\* A control statement (BEGIN, bind, COMMIT, ROLLBACK, reset) of operation o.
Control(o, pc, k) ==
  /\ ops[o].pc = pc
  /\ LET op == ops[o]
         c == op.conn
     IN \E out \in Outcomes(conns[c], k) :
          LET op2 == Advance([op EXCEPT !.log = Append(@, k),
                                        !.bound = IF k = "BIND" THEN out = "ok" ELSE @],
                             out = "ok", op.stmts # <<>>)
              cn2 == ConnAfter(conns[c], k, out, op.tenant)
          IN /\ ops' = [ops EXCEPT ![o] = op2]
             /\ conns' = [conns EXCEPT ![c] = Settle(op2, cn2)]
             /\ ebs_volumes' = IF k = "COMMIT" /\ out = "ok" /\ conns[c].tx = "open"
                               THEN UpsertAll(ebs_volumes, pending[c])
                               ELSE ebs_volumes
             /\ pending' = IF out = "break" \/ (out \in {"ok", "sqlerr"} /\ k \in {"COMMIT", "ROLLBACK"})
                           THEN [pending EXCEPT ![c] = <<>>]
                           ELSE pending
  /\ UNCHANGED <<pool, scanvars>>

\* getPool up to its await: `if (!this.pool)`. With a pool the call returns
\* it; without one it starts fetching the credentials.
GetPool(o) ==
  /\ ops[o].pc = "getPool"
  /\ ~ops[o].creating
  /\ ops' = [ops EXCEPT ![o] = IF pool # 0 THEN [Advance(@, TRUE, TRUE) EXCEPT !.pool = pool]
                                ELSE [@ EXCEPT !.creating = TRUE]]
  /\ UNCHANGED <<pool, conns, pending, ebs_volumes, scanvars>>

\* getPool after `await getCredentials()`: fetching may have failed; else
\* `this.pool = new Pool(...)`, without looking at this.pool again, and the
\* call returns that pool.
CreatePool(o) ==
  /\ ops[o].pc = "getPool"
  /\ ops[o].creating
  /\ \E ok \in BOOLEAN :
       /\ ops' = [ops EXCEPT ![o] = [Advance(@, ok, TRUE) EXCEPT
                                      !.creating = FALSE,
                                      !.pool = IF ok THEN pool + 1 ELSE 0]]
       /\ pool' = IF ok THEN pool + 1 ELSE pool
  /\ UNCHANGED <<conns, pending, ebs_volumes, scanvars>>

\* pool.connect on the pool getPool returned: an idle connection of that pool
\* if there is one, else a new one while the pool is below its maximum
\* (connecting may fail), else the wait times out.
Connect(o) ==
  /\ ops[o].pc = "connect"
  /\ LET mine == {c \in ConnIds : conns[c].state # "absent" /\ conns[c].pool = ops[o].pool}
         idle == {c \in mine : conns[c].state = "idle"}
         absent == IF Cardinality(mine) < max
                   THEN {c \in ConnIds : conns[c].state = "absent"} ELSE {}
         take(c, cn) ==
           /\ ops' = [ops EXCEPT ![o] = [Advance(@, TRUE, TRUE) EXCEPT !.conn = c, !.holds = TRUE]]
           /\ conns' = [conns EXCEPT ![c] = cn]
         fail ==
           /\ ops' = [ops EXCEPT ![o] = Advance(@, FALSE, TRUE)]
           /\ conns' = conns
     IN IF idle # {} THEN \E c \in idle : take(c, [conns[c] EXCEPT !.state = "busy"])
        ELSE IF absent # {} THEN take(CHOOSE c \in absent : \A d \in absent : c <= d,
                                     [FreshConn EXCEPT !.pool = ops[o].pool]) \/ fail
        ELSE fail
  /\ UNCHANGED <<pool, pending, ebs_volumes, scanvars>>

Begin(o) == ops[o].kind = "tx" /\ Control(o, "begin", "BEGIN")
Bind(o) == Control(o, "bind", "BIND")
Commit(o) == Control(o, "commit", "COMMIT")
Rollback(o) == Control(o, "rollback", "ROLLBACK")
Reset(o) == Control(o, "reset", "RESET")

\* client.release(): the connection goes back to the pool as it is.
Release(o) ==
  /\ ops[o].pc = "release"
  /\ ops' = [ops EXCEPT ![o] = [Advance(@, TRUE, TRUE) EXCEPT !.holds = FALSE]]
  /\ conns' = [conns EXCEPT ![ops[o].conn].state = "idle"]
  /\ UNCHANGED <<pool, pending, ebs_volumes, scanvars>>

\* ------------------------------------------------------- data statements
\* Rows of scan_history an UPDATE ... WHERE scan_id = $1 reaches in a session
\* with context ctx.
ScanRowMatches(scan, ctx) ==
  /\ scan \in DOMAIN scan_history
  /\ scanTenantScoped => PolicyAdmits(scan_history[scan].tenant_id, ctx)

\* UPDATE scan_history SET status, error_message, metrics, completed_at.
ScanRowAfter(row, s) ==
  [row EXCEPT !.status = s.status, !.error_message = s.msg,
              !.metrics = s.metrics,
              !.completed = s.status \in {"completed", "failed"}]

\* The rows of ebs_volumes a session sees: committed rows and its own writes.
View(c) == UpsertAll(ebs_volumes, pending[c])

\* An INSERT of a row the policy of ebs_volumes does not admit is rejected.
DataOutcomes(cn, s, tenant) ==
  IF s.t = "upsert" /\ ~PolicyAdmits(tenant, cn.ctx)
  THEN Outcomes(cn, "DATA") \ {"ok"}
  ELSE Outcomes(cn, "DATA")

\* The caller's statement of queryWithTenant, or one client.query of the
\* callback of transactionWithTenant.
Statement(o) ==
  /\ ops[o].pc \in {"stmt", "body"}
  /\ LET op == ops[o]
         c == op.conn
         cn == conns[c]
         s == op.stmts[op.i]
     IN \E out \in DataOutcomes(cn, s, op.tenant) :
          LET ran == out \in {"ok", "sqlerr"}
              op1 == [op EXCEPT
                        !.log = Append(@, "DATA"),
                        !.i = IF out = "ok" THEN @ + 1 ELSE @,
                        !.ctxs = IF ran THEN @ \cup {cn.ctx} ELSE @,
                        !.unbound = @ \/ ~op.bound,
                        !.accRows = IF out = "ok" /\ s.t = "selAccount"
                                    THEN {r \in aws_accounts :
                                            /\ PolicyAdmits(r.tenant_id, cn.ctx)
                                            /\ r.account_id = s.acct}
                                    ELSE @,
                        !.volRows = IF out = "ok" /\ s.t = "selVolumes"
                                    THEN {r \in View(c) : PolicyAdmits(r.tenant_id, cn.ctx)}
                                    ELSE @]
              op2 == Advance(op1, out = "ok", op.i < Len(op.stmts))
              cn2 == ConnAfter(cn, "DATA", out, op.tenant)
              row == VolumeRow(op.tenant, s)
          IN /\ ops' = [ops EXCEPT ![o] = op2]
             /\ conns' = [conns EXCEPT ![c] = Settle(op2, cn2)]
             /\ pending' = IF out = "break" THEN [pending EXCEPT ![c] = <<>>]
                           ELSE IF out = "ok" /\ s.t = "upsert" /\ cn.tx = "open"
                           THEN [pending EXCEPT ![c] = Append(@, row)]
                           ELSE pending
             /\ ebs_volumes' = IF out = "ok" /\ s.t = "upsert" /\ cn.tx # "open"
                               THEN Upsert(ebs_volumes, row)
                               ELSE ebs_volumes
             /\ scan_history' = IF out = "ok" /\ s.t = "updScan" /\ ScanRowMatches(s.scan, cn.ctx)
                                THEN [scan_history EXCEPT ![s.scan] = ScanRowAfter(@, s)]
                                ELSE scan_history
  /\ UNCHANGED <<pool, aws_accounts, scanTenantScoped, queue, event, hs>>

\* ===================================================== concurrent callers
\* Callers of the shared db object: each calls queryWithTenant or
\* transactionWithTenant once, at any time, possibly while others are running.
ClientTenant(o) == IF o % 2 = 1 THEN "tA" ELSE "tB"

\* What caller o writes, recognisable by the observed state it stores.
ClientState(o) == "seen-by-" \o ToString(o)

\* The callback of a caller's transaction: two upserts.
ClientBodies(o) ==
  {<<UpsertVolume("a1", "v1", "r1", ClientState(o), o),
     UpsertVolume("a1", "v2", "r1", ClientState(o), o)>>}

ClientCall(o) ==
  /\ ops[o].pc = "idle"
  /\ \/ ops' = [ops EXCEPT ![o] = NewOp("query", ClientTenant(o), <<SelVolumes>>)]
     \/ \E b \in ClientBodies(o) : ops' = [ops EXCEPT ![o] = NewOp("tx", ClientTenant(o), b)]
  /\ UNCHANGED <<pool, conns, pending, ebs_volumes, scanvars>>

NoScans == [s \in {} |-> 0]

\* Position and locals of the handler: the record being processed and the
\* locals of processScanRequest.
IdleHandler ==
  [pc |-> "idle", idx |-> 1, scan |-> "", validated |-> FALSE, isValid |-> FALSE,
   accountInternalId |-> "", credentials |-> FALSE, totalVolumes |-> 0,
   errors |-> <<>>, attempted |-> <<>>, r |-> 1, page |-> 1, volumes |-> <<>>,
   error |-> "", sts |-> 0, ec2 |-> 0, stores |-> 0, finished |-> FALSE,
   catchOk |-> FALSE, updates |-> <<>>, lookup |-> {}, lookupThrew |-> FALSE]

InitDb ==
  /\ pool = 0
  /\ conns = [c \in ConnIds |-> AbsentConn]
  /\ ops = [o \in OpIds |-> IdleOp]
  /\ pending = [c \in ConnIds |-> <<>>]
  /\ ebs_volumes = {}
  /\ aws_accounts = {}
  /\ scan_history = NoScans
  /\ scanTenantScoped = TRUE
  /\ queue = NoScans
  /\ event = <<>>
  /\ hs = IdleHandler

NextDb ==
  \E o \in OpIds :
    \/ ClientCall(o)
    \/ GetPool(o)
    \/ CreatePool(o)
    \/ Connect(o)
    \/ Begin(o)
    \/ Bind(o)
    \/ Statement(o)
    \/ Commit(o)
    \/ Rollback(o)
    \/ Reset(o)
    \/ Release(o)

SpecDb == InitDb /\ [][NextDb]_vars

\* ------------------------------------------- properties of the database layer
Has(log, k) == \E i \in DOMAIN log : log[i] = k
Before(log, k1, k2) ==
  \E i \in DOMAIN log : log[i] = k1 /\ \A j \in DOMAIN log : log[j] = k2 => i < j
Finished(o) == ops[o].pc = "done" /\ ops[o].conn # 0
Released(o) == Finished(o) /\ ~ops[o].holds

\* C2: an invocation of queryWithTenant or transactionWithTenant that acquired
\* a connection has sent the reset statement on it by the time it returns or
\* throws, whichever step failed.
C2_ResetIssuedOnEveryExit ==
  \A o \in OpIds : Finished(o) => Has(ops[o].log, "RESET")

\* A query whose statement failed and a transaction whose COMMIT failed have
\* both ended, each after sending the reset.
C2_Witness ==
  \E o1, o2 \in OpIds :
    /\ Finished(o1) /\ ops[o1].kind = "query" /\ ops[o1].failed = "stmt"
    /\ Finished(o2) /\ ops[o2].kind = "tx" /\ ops[o2].failed = "commit"
    /\ Has(ops[o1].log, "RESET") /\ Has(ops[o2].log, "RESET")

\* C3: a connection idle in the pool has an empty tenant context, and every
\* statement of a call runs under the call's own tenant and returns rows of
\* that tenant only, whatever the earlier calls on the connection did.
C3_IdleConnectionsClean ==
  /\ \A c \in ConnIds : conns[c].state = "idle" => conns[c].ctx = NoTenant
  /\ \A o \in OpIds :
       /\ ops[o].ctxs \subseteq {ops[o].tenant}
       /\ \A r \in ops[o].volRows : r.tenant_id = ops[o].tenant

\* Tenant A's transaction committed rows; tenant B's query then ran on the same
\* pooled connection under context B and saw none of them.
C3_Witness ==
  \E a, b \in OpIds :
    /\ ops[a].tenant = "tA" /\ ops[b].tenant = "tB"
    /\ Released(a) /\ ops[a].kind = "tx" /\ ops[a].err = "none"
    /\ \E r \in ebs_volumes : r.tenant_id = "tA"
    /\ Released(b) /\ ops[b].kind = "query" /\ ops[b].err = "none"
    /\ ops[b].conn = ops[a].conn
    /\ ops[b].ctxs = {"tB"} /\ ops[b].volRows = {}

\* C4: operations in flight hold different connections, and each data
\* statement runs under the tenant of the operation that sent it.
C4_BindingScopedToOwnConnection ==
  /\ \A o1, o2 \in OpIds :
       (o1 # o2 /\ ops[o1].holds /\ ops[o2].holds) => ops[o1].conn # ops[o2].conn
  /\ \A o \in OpIds : \A ctx \in ops[o].ctxs : ctx = ops[o].tenant

\* Two operations of different tenants are in flight at once and both have
\* run a data statement.
C4_Witness ==
  \E o1, o2 \in OpIds :
    /\ ops[o1].tenant # ops[o2].tenant
    /\ ops[o1].holds /\ ops[o2].holds
    /\ ops[o1].pc \in {"reset", "body"} /\ ops[o2].pc \in {"reset", "body", "commit"}
    /\ ops[o1].ctxs # {} /\ ops[o2].ctxs # {}

\* C5: a data statement is sent only after the bind succeeded on the same
\* connection in the same operation; after a failed BEGIN or bind none is sent.
C5_NoStatementWithoutBind ==
  \A o \in OpIds :
    /\ ~ops[o].unbound
    /\ ops[o].failed \in {"begin", "bind"} => ~Has(ops[o].log, "DATA")

\* An operation whose bind failed has ended without sending its statement.
C5_Witness ==
  \E o \in OpIds :
    Finished(o) /\ ops[o].failed = "bind" /\ ~Has(ops[o].log, "DATA")

\* C6 as stated: in both functions the bind is the first statement sent on the
\* acquired connection and the reset the last one before release.
C6_BindFirstResetLast ==
  \A o \in OpIds :
    /\ ops[o].log # <<>> => ops[o].log[1] = "BIND"
    /\ ops[o].pc = "release" => ops[o].log[Len(ops[o].log)] = "RESET"

\* C6 amended: queryWithTenant sends the bind first; transactionWithTenant
\* sends BEGIN first and the bind right after a successful BEGIN; no data
\* statement precedes the bind; the reset is the last statement before release.
C6_BindFirstAfterBegin ==
  \A o \in OpIds :
    LET log == ops[o].log
    IN /\ (log # <<>> /\ ops[o].kind = "query") => log[1] = "BIND"
       /\ (log # <<>> /\ ops[o].kind = "tx") => log[1] = "BEGIN"
       /\ (Len(log) >= 2 /\ ops[o].kind = "tx" /\ ops[o].failed # "begin") => log[2] = "BIND"
       /\ \A i \in DOMAIN log : log[i] = "DATA" => \E j \in 1..(i - 1) : log[j] = "BIND"
       /\ (ops[o].pc = "release" \/ Released(o)) => log[Len(log)] = "RESET"

\* A transaction is about to release its connection after BEGIN, bind, two
\* upserts, COMMIT and reset.
C6_Witness ==
  \E o \in OpIds :
    /\ ops[o].pc = "release"
    /\ ops[o].log = <<"BEGIN", "BIND", "DATA", "DATA", "COMMIT", "RESET">>

\* The rows caller o's callback wrote are visible to other sessions.
WritesVisible(o) ==
  \E r \in ebs_volumes : r.tenant_id = ops[o].tenant /\ r.state = ClientState(o)

\* C7: when the callback of transactionWithTenant throws, ROLLBACK is sent
\* before the reset and the release, no COMMIT is sent, none of the callback's
\* writes become visible, and the callback's error is what the caller gets.
C7_BodyFailureRollsBackAndRethrows ==
  \A o \in OpIds :
    (Finished(o) /\ ops[o].kind = "tx" /\ ops[o].failed = "body") =>
      /\ Before(ops[o].log, "ROLLBACK", "RESET")
      /\ ~Has(ops[o].log, "COMMIT")
      /\ ~WritesVisible(o)
      /\ ops[o].err = "body"

\* The part of C7 that holds: rollback before reset, no COMMIT, no visible
\* write, and the invocation throws some error.
C7_BodyFailureRollsBack ==
  \A o \in OpIds :
    (Finished(o) /\ ops[o].kind = "tx" /\ ops[o].failed = "body") =>
      /\ Before(ops[o].log, "ROLLBACK", "RESET")
      /\ ~Has(ops[o].log, "COMMIT")
      /\ ~WritesVisible(o)
      /\ ops[o].err # "none"
      /\ Released(o) => ops[o].err = "body"

\* ================================================================ scanner
H == 1                        \* the handler's database operations run in slot 1
maxReceiveCount == 3          \* deadLetterQueue of the scan queue
batchSize == 5                \* SqsEventSource of the scanner

CustomerRole(acct) == "arn:aws:iam::" \o acct \o ":role/EBSVolumeManager-CustomerRole"
OtherRole(acct) == "arn:aws:iam::" \o acct \o ":role/Admin"

\* /^arn:aws:iam::\d{12}:role\/EBSVolumeManager-CustomerRole$/ over the role
\* ARNs of the requests.
roleArnPattern(roleArn) ==
  \E a \in {"111111111111", "222222222222"} : roleArn = CustomerRole(a)

\* HMAC-SHA256 of "tenantId:accountId" under the secret, as hex, cut to 32
\* characters: a keyed digest, distinct for distinct pairs.
generateExternalId(tenantId, accountId) == "hmac(" \o tenantId \o ":" \o accountId \o ")"

\* The volumes DescribeVolumes returns for an account, page by page.
RegionPages(accountId, region) ==
  CASE accountId = "111111111111" /\ region = "r1" -> << <<"v1">>, <<"v2">> >>
    [] accountId = "111111111111" /\ region = "r2" -> << <<"v3">> >>
    [] accountId = "222222222222" /\ region = "r3" -> << <<"v4">> >>
    [] OTHER -> << <<>> >>

BaseRequest(s) ==
  IF s = "s1"
  THEN [scanId |-> s, tenantId |-> "tA", accountId |-> "111111111111",
        roleArn |-> CustomerRole("111111111111"),
        externalId |-> generateExternalId("tA", "111111111111"),
        regions |-> <<"r1", "r2">>]
  ELSE [scanId |-> s, tenantId |-> "tB", accountId |-> "222222222222",
        roleArn |-> CustomerRole("222222222222"),
        externalId |-> generateExternalId("tB", "222222222222"),
        regions |-> <<"r4", "r3">>]

AccountRow(tenantId, accountId) ==
  [id |-> "acc-" \o tenantId \o "-" \o accountId, tenant_id |-> tenantId,
   account_id |-> accountId, role_arn |-> CustomerRole(accountId),
   external_id |-> generateExternalId(tenantId, accountId), is_active |-> TRUE]

\* What a scan request and the tenant's aws_accounts row can look like.
Scenarios(s) ==
  IF s = "s1"
  THEN {"valid", "absent", "inactive", "arnMismatch", "claimedExternalId",
        "storedExternalId", "arnFormat", "emptyRegion"}
  ELSE {"valid", "absent"}

ScenarioRequest(s, sc) ==
  LET b == BaseRequest(s)
  IN CASE sc = "arnMismatch" -> [b EXCEPT !.roleArn = CustomerRole("222222222222")]
       [] sc = "claimedExternalId" -> [b EXCEPT !.externalId = "forged"]
       [] sc = "storedExternalId" -> [b EXCEPT !.externalId = "stale"]
       [] sc = "arnFormat" -> [b EXCEPT !.roleArn = OtherRole("111111111111")]
       [] sc = "emptyRegion" -> [b EXCEPT !.regions = <<"r0", "r2">>]
       [] OTHER -> b

ScenarioRows(s, sc) ==
  LET b == BaseRequest(s)
      row == AccountRow(b.tenantId, b.accountId)
  IN CASE sc = "absent" -> {}
       [] sc = "inactive" -> {[row EXCEPT !.is_active = FALSE]}
       [] sc = "storedExternalId" -> {[row EXCEPT !.external_id = "stale"]}
       [] sc = "arnFormat" -> {[row EXCEPT !.role_arn = OtherRole("111111111111")]}
       [] OTHER -> {row}

\* Rows of the other tenant for the same cloud accounts.
ForeignRows == {AccountRow("tB", "111111111111"), AccountRow("tA", "222222222222")}

Req(s) == queue[s].body

\* A validation that compares the claimed external id with the stored one
\* only.
validateAccountOwnershipStoredIdOnly(threw, results, tenantId, accountId, roleArn, externalId) ==
  IF threw THEN FALSE
  ELSE IF results = {} THEN FALSE
  ELSE LET account == CHOOSE r \in results : TRUE
       IN IF ~account.is_active THEN FALSE
          ELSE IF account.role_arn # roleArn THEN FALSE
          ELSE IF account.external_id # externalId THEN FALSE
          ELSE TRUE

validateAccountOwnership(threw, results, tenantId, accountId, roleArn, externalId) ==
  IF threw THEN FALSE
  ELSE IF results = {} THEN FALSE
  ELSE LET account == CHOOSE r \in results : TRUE
       IN IF ~account.is_active THEN FALSE
          ELSE IF account.role_arn # roleArn THEN FALSE
          ELSE IF account.external_id # externalId
                  \/ externalId # generateExternalId(tenantId, accountId) THEN FALSE
          ELSE TRUE

\* A processScanRequest that goes on whatever validation returned.
AfterValidationUnchecked(isValid) == "inProgress"

\* processScanRequest after validation: throw unless the request is valid.
AfterValidation(isValid) == IF isValid THEN "inProgress" ELSE "catch"

\* A region loop whose catch clause ends the loop at the first failure.
AfterRegionAbortOnFailure(h, region, failed, msg) ==
  [h EXCEPT !.pc = IF failed THEN "complete" ELSE "region", !.r = @ + 1,
            !.errors = IF failed THEN Append(@, region \o ": " \o msg) ELSE @]

\* A region loop whose catch clause rethrows the region's error.
AfterRegionRethrow(h, region, failed, msg) ==
  IF failed THEN [h EXCEPT !.pc = "catch", !.error = msg]
  ELSE [h EXCEPT !.pc = "region", !.r = @ + 1]

\* The region loop after a region's try block: the catch clause records
\* `${region}: ${error.message}` and the loop goes on with the next region.
AfterRegion(h, region, failed, msg) ==
  [h EXCEPT !.pc = "region", !.r = @ + 1,
            !.errors = IF failed THEN Append(@, region \o ": " \o msg) ELSE @]

\* totalVolumes += volumes.length, on return of scanVolumesInRegion.
CountVolumes(total, volumes) == total + Len(volumes)

Throw(h, msg) == [h EXCEPT !.pc = "catch", !.error = msg]

\* error.message of an error thrown by the database layer.
Message(err) == "database error"

\* The statuses updateScanStatus was called with while processing the record.
StatusUpdates(updates, op) ==
  IF op.stmts[1].t = "updScan" THEN Append(updates, op.stmts[1].status) ELSE updates

\* The handler starts a database call in its slot and waits for it.
Call(from, to, op) ==
  /\ hs.pc = from
  /\ ops[H].pc = "idle"
  /\ ops' = [ops EXCEPT ![H] = op]
  /\ hs' = [hs EXCEPT !.pc = to, !.updates = StatusUpdates(@, op)]
  /\ UNCHANGED <<pool, conns, pending, ebs_volumes, aws_accounts, scan_history,
                 scanTenantScoped, queue, event>>

\* The awaited call has returned or thrown.
Returned(at) == hs.pc = at /\ ops[H].pc = "done"

Ret(h) ==
  /\ hs' = h
  /\ ops' = [ops EXCEPT ![H] = IdleOp]
  /\ UNCHANGED <<pool, conns, pending, ebs_volumes, aws_accounts, scan_history,
                 scanTenantScoped, queue, event>>

\* Variant of updateScanStatus that binds the tenant of the scan request.
updateScanStatusAsTenant(scanId, status, error, metrics) ==
  NewOp("query", queue[scanId].body.tenantId, <<UpdScan(scanId, status, error, metrics)>>)

updateScanStatus(scanId, status, error, metrics) ==
  NewOp("query", SystemTenant, <<UpdScan(scanId, status, error, metrics)>>)

\* ---------------------------------------------------------------- handler
\* Batches the event source can hand to one invocation.
Deliverable == {s \in DOMAIN queue : queue[s].state = "visible" /\ queue[s].receives < maxReceiveCount}

Batches ==
  {b \in UNION {[1..n -> Deliverable] : n \in 1..batchSize} :
     \A i, j \in DOMAIN b : i # j => b[i] # b[j]}

Invoke ==
  /\ hs.pc \in {"idle", "returned", "thrown"}
  /\ \E b \in Batches :
       /\ event' = b
       /\ queue' = [s \in DOMAIN queue |->
                      IF \E i \in DOMAIN b : b[i] = s
                      THEN [queue[s] EXCEPT !.state = "inflight", !.receives = @ + 1]
                      ELSE queue[s]]
  /\ hs' = [IdleHandler EXCEPT !.pc = "loop"]
  /\ UNCHANGED <<dbvars, aws_accounts, scan_history, scanTenantScoped>>

\* A message received maxReceiveCount times goes to the dead-letter queue.
DeadLetter(s) ==
  /\ queue[s].state = "visible"
  /\ queue[s].receives >= maxReceiveCount
  /\ queue' = [queue EXCEPT ![s].state = "dead"]
  /\ UNCHANGED <<dbvars, aws_accounts, scan_history, scanTenantScoped, event, hs>>

\* for (const record of event.Records): JSON.parse(record.body)
NextRecord ==
  /\ hs.pc = "loop"
  /\ hs.idx <= Len(event)
  /\ hs' = [IdleHandler EXCEPT !.pc = "validate", !.idx = hs.idx, !.scan = event[hs.idx]]
  /\ UNCHANGED <<dbvars, aws_accounts, scan_history, scanTenantScoped, queue, event>>

\* The handler returns: the event source deletes the batch from the queue.
HandlerReturn ==
  /\ hs.pc = "loop"
  /\ hs.idx > Len(event)
  /\ hs' = [hs EXCEPT !.pc = "returned"]
  /\ queue' = [s \in DOMAIN queue |->
                 IF queue[s].state = "inflight" THEN [queue[s] EXCEPT !.state = "deleted"]
                 ELSE queue[s]]
  /\ event' = <<>>
  /\ UNCHANGED <<dbvars, aws_accounts, scan_history, scanTenantScoped>>

ValidateCall ==
  Call("validate", "validateRet",
       NewOp("query", Req(hs.scan).tenantId, <<SelAccount(Req(hs.scan).accountId)>>))

ValidateRet ==
  /\ Returned("validateRet")
  /\ LET q == Req(hs.scan)
         isValid == validateAccountOwnership(ops[H].err # "none", ops[H].accRows,
                      q.tenantId, q.accountId, q.roleArn, q.externalId)
     IN Ret([hs EXCEPT !.validated = TRUE, !.isValid = isValid,
                       !.lookup = IF ops[H].err # "none" THEN {} ELSE ops[H].accRows,
                       !.lookupThrew = (ops[H].err # "none"),
                       !.pc = AfterValidation(isValid),
                       !.error = IF isValid THEN @
                                 ELSE "Invalid account credentials or ownership"])

InProgressCall ==
  Call("inProgress", "inProgressRet",
       updateScanStatus(hs.scan, "in-progress", "", NoMetrics))

InProgressRet ==
  /\ Returned("inProgressRet")
  /\ Ret(IF ops[H].err # "none" THEN Throw(hs, Message(ops[H].err))
         ELSE [hs EXCEPT !.pc = "accountId"])

\* getAccountInternalId
AccountIdCall ==
  Call("accountId", "accountIdRet",
       NewOp("query", Req(hs.scan).tenantId, <<SelAccount(Req(hs.scan).accountId)>>))

AccountIdRet ==
  /\ Returned("accountIdRet")
  /\ Ret(IF ops[H].err # "none" THEN Throw(hs, Message(ops[H].err))
         ELSE IF ops[H].accRows = {} THEN Throw(hs, "Account not found")
         ELSE [hs EXCEPT !.pc = "assume",
                         !.accountInternalId = (CHOOSE r \in ops[H].accRows : TRUE).id])

\* assumeRoleSecurely: the format check, then sts.send(AssumeRoleCommand).
AssumeRole ==
  /\ hs.pc = "assume"
  /\ IF ~roleArnPattern(Req(hs.scan).roleArn)
     THEN hs' = Throw(hs, "Invalid role ARN format")
     ELSE \E out \in {"credentials", "noCredentials", "refused"} :
            hs' = CASE out = "credentials" ->
                         [hs EXCEPT !.sts = @ + 1, !.credentials = TRUE, !.pc = "region"]
                    [] out = "noCredentials" ->
                         Throw([hs EXCEPT !.sts = @ + 1], "Failed to assume role")
                    [] out = "refused" ->
                         Throw([hs EXCEPT !.sts = @ + 1], "AccessDenied")
  /\ UNCHANGED <<dbvars, aws_accounts, scan_history, scanTenantScoped, queue, event>>

\* for (const region of request.regions)
RegionNext ==
  /\ hs.pc = "region"
  /\ LET regions == Req(hs.scan).regions
     IN hs' = IF regions = NoRegions THEN Throw(hs, "request.regions is not iterable")
              ELSE IF hs.r > Len(regions) THEN [hs EXCEPT !.pc = "complete"]
              ELSE [hs EXCEPT !.pc = "describe", !.page = 1, !.volumes = <<>>,
                              !.attempted = Append(@, regions[hs.r])]
  /\ UNCHANGED <<dbvars, aws_accounts, scan_history, scanTenantScoped, queue, event>>

\* One ec2.send(DescribeVolumesCommand) of scanVolumesInRegion.
DescribeVolumes ==
  /\ hs.pc = "describe"
  /\ LET q == Req(hs.scan)
         region == q.regions[hs.r]
         pages == RegionPages(q.accountId, region)
         volumes == hs.volumes \o pages[hs.page]
     IN \E ok \in BOOLEAN :
          hs' = IF ~ok THEN AfterRegion([hs EXCEPT !.ec2 = @ + 1], region, TRUE, "DescribeVolumes failed")
                ELSE IF hs.page < Len(pages)
                THEN [hs EXCEPT !.ec2 = @ + 1, !.volumes = volumes, !.page = @ + 1]
                ELSE [hs EXCEPT !.ec2 = @ + 1, !.volumes = volumes, !.pc = "store",
                                !.totalVolumes = CountVolumes(@, volumes)]
  /\ UNCHANGED <<dbvars, aws_accounts, scan_history, scanTenantScoped, queue, event>>

\* scannedAt: new Date() of the scan; the deliveries of a message happen at
\* different times.
ScannedAt == queue[hs.scan].receives

\* volume.State of the describe response: the volumes are found attached by
\* the first delivery and detached by the later ones.
VolumeState == IF ScannedAt = 1 THEN "in-use" ELSE "available"

\* storeVolumes: nothing to do for an empty list, else one transaction.
StoreNothing ==
  /\ hs.pc = "store"
  /\ hs.volumes = <<>>
  /\ hs' = AfterRegion(hs, Req(hs.scan).regions[hs.r], FALSE, "")
  /\ UNCHANGED <<dbvars, aws_accounts, scan_history, scanTenantScoped, queue, event>>

\* Variant of storeVolumes that sends its upserts outside a transaction.
storeVolumesAutocommit(tenantId, upserts) == NewOp("query", tenantId, upserts)

\* storeVolumes: the upserts of a region as the callback of one
\* transactionWithTenant.
storeVolumes(tenantId, upserts) == NewOp("tx", tenantId, upserts)

StoreCall ==
  /\ hs.pc = "store"
  /\ hs.volumes # <<>>
  /\ ops[H].pc = "idle"
  /\ LET q == Req(hs.scan)
     IN ops' = [ops EXCEPT ![H] =
                  storeVolumes(q.tenantId,
                        [i \in 1..Len(hs.volumes) |->
                           UpsertVolume(hs.accountInternalId, hs.volumes[i],
                                        q.regions[hs.r], VolumeState, ScannedAt)])]
  /\ hs' = [hs EXCEPT !.pc = "storeRet", !.stores = @ + 1]
  /\ UNCHANGED <<pool, conns, pending, ebs_volumes, aws_accounts, scan_history,
                 scanTenantScoped, queue, event>>

StoreRet ==
  /\ Returned("storeRet")
  /\ Ret(AfterRegion(hs, Req(hs.scan).regions[hs.r], ops[H].err # "none", Message(ops[H].err)))

CompleteCall ==
  Call("complete", "completeRet",
       updateScanStatus(hs.scan, "completed", "", Metrics(hs.totalVolumes, hs.errors)))

CompleteRet ==
  /\ Returned("completeRet")
  /\ Ret(IF ops[H].err # "none" THEN Throw(hs, Message(ops[H].err))
         ELSE [hs EXCEPT !.pc = "loop", !.idx = @ + 1, !.finished = TRUE])

\* Variant of the handler's catch clause that goes on with the next record
\* once the failed write has returned.
AfterCatchSwallow(h, writeFailed, msg) ==
  IF writeFailed THEN [h EXCEPT !.pc = "thrown", !.catchOk = FALSE, !.error = msg]
  ELSE [h EXCEPT !.pc = "loop", !.idx = @ + 1, !.catchOk = TRUE]

\* The handler's catch clause after its failed write: `throw error`, or the
\* error of the write when that threw.
AfterCatch(h, writeFailed, msg) ==
  [h EXCEPT !.pc = "thrown", !.catchOk = ~writeFailed,
            !.error = IF writeFailed THEN msg ELSE @]

\* catch (error) of the handler: updateScanStatus(scanId, 'failed', message)
CatchCall ==
  Call("catch", "catchRet", updateScanStatus(hs.scan, "failed", hs.error, NoMetrics))

\* ... and throw: the invocation fails and the batch becomes visible again.
CatchRet ==
  /\ Returned("catchRet")
  /\ LET h == AfterCatch(hs, ops[H].err # "none", Message(ops[H].err))
     IN /\ hs' = h
        /\ IF h.pc = "thrown"
           THEN /\ queue' = [s \in DOMAIN queue |->
                               IF queue[s].state = "inflight"
                               THEN [queue[s] EXCEPT !.state = "visible"]
                               ELSE queue[s]]
                /\ event' = <<>>
           ELSE UNCHANGED <<queue, event>>
  /\ ops' = [ops EXCEPT ![H] = IdleOp]
  /\ UNCHANGED <<pool, conns, pending, ebs_volumes, aws_accounts, scan_history,
                 scanTenantScoped>>

\* scan_history rows exist with status queued when the scan was requested.
QueuedRow(tenantId) ==
  [tenant_id |-> tenantId, status |-> "queued", error_message |-> "",
   metrics |-> NoMetrics, completed |-> FALSE]

\* The state after deployment with the scans of S requested.
InitScans(S) ==
  /\ pool = 0
  /\ conns = [c \in ConnIds |-> AbsentConn]
  /\ ops = [o \in OpIds |-> IdleOp]
  /\ pending = [c \in ConnIds |-> <<>>]
  /\ ebs_volumes = {}
  /\ scanTenantScoped \in BOOLEAN
  /\ \E sc \in [S -> {"valid", "absent", "inactive", "arnMismatch",
                      "claimedExternalId", "storedExternalId", "arnFormat",
                      "emptyRegion"}] :
       /\ \A s \in S : sc[s] \in Scenarios(s)
       /\ aws_accounts = ForeignRows \cup UNION {ScenarioRows(s, sc[s]) : s \in S}
       /\ queue = [s \in S |->
                     [state |-> "visible", receives |-> 0, body |-> ScenarioRequest(s, sc[s])]]
  /\ scan_history = [s \in S |-> QueuedRow(BaseRequest(s).tenantId)]
  /\ event = <<>>
  /\ hs = IdleHandler

Init == InitScans({"s1"})

Next ==
  \/ Invoke
  \/ \E s \in DOMAIN queue : DeadLetter(s)
  \/ NextRecord
  \/ HandlerReturn
  \/ ValidateCall
  \/ ValidateRet
  \/ InProgressCall
  \/ InProgressRet
  \/ AccountIdCall
  \/ AccountIdRet
  \/ AssumeRole
  \/ RegionNext
  \/ DescribeVolumes
  \/ StoreNothing
  \/ StoreCall
  \/ StoreRet
  \/ CompleteCall
  \/ CompleteRet
  \/ CatchCall
  \/ CatchRet
  \/ GetPool(H)
  \/ CreatePool(H)
  \/ Connect(H)
  \/ Begin(H)
  \/ Bind(H)
  \/ Statement(H)
  \/ Commit(H)
  \/ Rollback(H)
  \/ Reset(H)
  \/ Release(H)

Spec == Init /\ [][Next]_vars

\* ------------------------------------------------ properties of the scanner
Rejected == hs.scan # "" /\ hs.validated /\ ~hs.isValid

\* C1: when validateAccountOwnership returned false, that processing of the
\* request makes no AssumeRole call, writes no Volume row, and the ScanRecord
\* ends in status failed.
C1_RejectedRequestEndsFailed ==
  /\ Rejected => (hs.sts = 0 /\ hs.ec2 = 0 /\ hs.stores = 0)
  /\ (Rejected /\ hs.pc = "thrown") => scan_history[hs.scan].status = "failed"

\* With the policy of scan_history in force, no status write made under the
\* context "system" reaches a record: every record stays queued.
SystemContextChangesNoScanRecord ==
  scanTenantScoped =>
    \A s \in DOMAIN scan_history : scan_history[s] = QueuedRow(scan_history[s].tenant_id)

\* The part of C1 that holds: a rejected request reaches neither STS, EC2 nor
\* storeVolumes.
RejectedRequestCallsNothing ==
  Rejected => (hs.sts = 0 /\ hs.ec2 = 0 /\ hs.stores = 0)

RECURSIVE Flatten(_)
Flatten(pages) == IF pages = <<>> THEN <<>> ELSE Head(pages) \o Flatten(Tail(pages))

\* The volumes of a region as scanVolumesInRegion returns them.
RegionVolumes(accountId, region) == Flatten(RegionPages(accountId, region))

Persisted(tenantId, region, vol) ==
  \E row \in ebs_volumes :
    row.tenant_id = tenantId /\ row.volume_id = vol /\ row.region = region

RegionMessages == {"DescribeVolumes failed", Message("body")}
RegionErrors(region) == {region \o ": " \o m : m \in RegionMessages}
RecordedError(errors, region) ==
  \E k \in DOMAIN errors : errors[k] \in RegionErrors(region)

\* C8: every region of the request is attempted exactly once, in list order,
\* whichever regions fail, and every region that recorded no error has its
\* volumes in ebs_volumes when the loop ends.
C8_EveryRegionAttempted ==
  hs.scan # "" =>
    LET q == Req(hs.scan)
    IN /\ Len(hs.attempted) <= Len(q.regions)
       /\ hs.attempted = SubSeq(q.regions, 1, Len(hs.attempted))
       /\ hs.pc \in {"complete", "completeRet"} =>
            /\ hs.attempted = q.regions
            /\ \A i \in DOMAIN q.regions :
                 ~RecordedError(hs.errors, q.regions[i]) =>
                   \A k \in DOMAIN RegionVolumes(q.accountId, q.regions[i]) :
                     Persisted(q.tenantId, q.regions[i],
                               RegionVolumes(q.accountId, q.regions[i])[k])

\* The first region failed, the second was scanned all the same and its volume
\* is stored.
C8_Witness ==
  /\ hs.pc = "complete"
  /\ Req(hs.scan).regions = <<"r1", "r2">>
  /\ hs.attempted = <<"r1", "r2">>
  /\ Len(hs.errors) = 1 /\ hs.errors[1] \in RegionErrors("r1")
  /\ Persisted("tA", "r2", "v3")
  /\ ~Persisted("tA", "r1", "v1")

RECURSIVE FoundIn(_, _, _)
\* The number of volumes of the regions that recorded no error.
FoundIn(accountId, regions, errors) ==
  IF regions = <<>> THEN 0
  ELSE (IF RecordedError(errors, Head(regions)) THEN 0
        ELSE Len(RegionVolumes(accountId, Head(regions))))
       + FoundIn(accountId, Tail(regions), errors)

\* errors holds one "<region>: <message>" per failed region, in list order.
ErrorsInRegionOrder(errors, regions) ==
  \E f \in [DOMAIN errors -> DOMAIN regions] :
    /\ \A j, k \in DOMAIN errors : j < k => f[j] < f[k]
    /\ \A k \in DOMAIN errors : errors[k] \in RegionErrors(regions[f[k]])

\* C9: a scan that passed validation and role assumption ends completed, with
\* volumesFound the number of volumes of the regions that recorded no error
\* and errors the "<region>: <message>" strings of the failed regions in list
\* order.
C9_CompletedWithRegionTotals ==
  (hs.scan # "" /\ hs.credentials /\ (hs.pc = "thrown" \/ hs.finished)) =>
    LET q == Req(hs.scan)
        row == scan_history[hs.scan]
    IN /\ row.status = "completed"
       /\ row.metrics.present
       /\ row.metrics.volumesFound = FoundIn(q.accountId, q.regions, row.metrics.errors)
       /\ ErrorsInRegionOrder(row.metrics.errors, q.regions)

\* C9 for the records the final write did reach: volumesFound counts only
\* regions without a recorded error.
CompletedCountsStoredRegions ==
  \A s \in DOMAIN scan_history :
    scan_history[s].status = "completed" =>
      scan_history[s].metrics.volumesFound =
        FoundIn(Req(s).accountId, Req(s).regions, scan_history[s].metrics.errors)

Transitions ==
  {<<"queued", "in-progress">>, <<"in-progress", "completed">>,
   <<"in-progress", "failed">>}

\* C10: the status of a ScanRecord changes only queued -> in-progress,
\* in-progress -> completed or in-progress -> failed, redelivery included.
C10_StatusFollowsStateMachine ==
  [][\A s \in DOMAIN scan_history :
       scan_history'[s].status # scan_history[s].status =>
         <<scan_history[s].status, scan_history'[s].status>> \in Transitions]_vars

\* C10 for the terminal states: a completed or failed record keeps its status.
TerminalStatusIsFinal ==
  [][\A s \in DOMAIN scan_history :
       scan_history[s].status \in {"completed", "failed"} =>
         scan_history'[s].status = scan_history[s].status]_vars
\* The processing of the record has ended, by return or by throw.
Processed == hs.scan # "" /\ (hs.pc = "thrown" \/ hs.finished)

IsPrefix(p, q) == Len(p) <= Len(q) /\ p = SubSeq(q, 1, Len(p))

\* C11 as stated: a processing issues exactly two status updates, in-progress
\* and then completed or failed, on every path.
C11_ExactlyTwoStatusUpdates ==
  Processed =>
    /\ Len(hs.updates) = 2
    /\ hs.updates[1] = "in-progress"
    /\ hs.updates[2] \in {"completed", "failed"}

UpdateSequences ==
  {<<"failed">>, <<"in-progress", "failed">>, <<"in-progress", "completed">>,
   <<"in-progress", "completed", "failed">>}

\* C11 amended: a processing issues <<failed>> alone when validation
\* rejected the request, and otherwise in-progress first, then completed
\* and/or failed: in-progress only once and never after a terminal update,
\* completed followed by failed only when the completed write threw.
C11_StatusUpdateSequences ==
  hs.scan # "" =>
    /\ \E q \in UpdateSequences : IsPrefix(hs.updates, q)
    /\ Processed => hs.updates \in UpdateSequences
    /\ Rejected => IsPrefix(hs.updates, <<"failed">>)
    /\ (hs.validated /\ hs.isValid /\ Processed) => hs.updates[1] = "in-progress"
    /\ (hs.finished /\ hs.pc # "thrown") => hs.updates = <<"in-progress", "completed">>

\* The final status write threw after the scan passed validation and role
\* assumption: the processing issued in-progress, completed and failed.
C11_Witness ==
  /\ Processed /\ hs.pc = "thrown" /\ hs.credentials
  /\ hs.updates = <<"in-progress", "completed", "failed">>
\* ------------------------------------------------------ scan request API
\* The checks of the scan request API before it queues anything: 401 without
\* a tenant in the token, 400 without accountId, roleArn or externalId.
ApiAccepts(tenantId, body) ==
  /\ tenantId # ""
  /\ body.accountId # "" /\ body.roleArn # "" /\ body.externalId # ""

\* What callers of the API send: a well-formed request, one over an empty
\* region, one without an externalId, one without a tenant in the token.
ApiInputs(s) ==
  {[tenantId |-> "tA", body |-> ScenarioRequest(s, "valid")],
   [tenantId |-> "tA", body |-> ScenarioRequest(s, "emptyRegion")],
   [tenantId |-> "tA", body |-> [ScenarioRequest(s, "valid") EXCEPT !.externalId = ""]],
   [tenantId |-> "", body |-> ScenarioRequest(s, "valid")]}

\* The scan request API: scanId = uuidv4(), the request is sent to the scan
\* queue and the caller gets 202 {scanId, status: 'queued'}.
RequestScan ==
  /\ \E s \in {"s1"} \ DOMAIN queue : \E in \in ApiInputs(s) :
       /\ ApiAccepts(in.tenantId, in.body)
       /\ queue' = [x \in DOMAIN queue \cup {s} |->
                      IF x = s
                      THEN [state |-> "visible", receives |-> 0,
                            body |-> [in.body EXCEPT !.tenantId = in.tenantId]]
                      ELSE queue[x]]
  /\ UNCHANGED <<dbvars, aws_accounts, scan_history, scanTenantScoped, event, hs>>

\* The state after deployment: tenant tA has registered its account, no scan
\* has been requested.
InitApi ==
  /\ pool = 0
  /\ conns = [c \in ConnIds |-> AbsentConn]
  /\ ops = [o \in OpIds |-> IdleOp]
  /\ pending = [c \in ConnIds |-> <<>>]
  /\ ebs_volumes = {}
  /\ scanTenantScoped \in BOOLEAN
  /\ aws_accounts = ForeignRows \cup {AccountRow("tA", "111111111111")}
  /\ queue = NoScans
  /\ scan_history = NoScans
  /\ event = <<>>
  /\ hs = IdleHandler

NextApi == RequestScan \/ Next

SpecApi == InitApi /\ [][NextApi]_vars

\* The scans the API accepted with 202: their requests are in the scan queue.
Accepted == DOMAIN queue

\* C12: every accepted scan request has its ScanRecord row, created when the
\* scan was requested, so that a status update for its scanId finds one row.
C12_AcceptedRequestHasRecord ==
  \A s \in Accepted : s \in DOMAIN scan_history

\* No step of the API or of the scanner ever creates a row of scan_history.
NoScanRecordIsCreated == scan_history = NoScans
\* ------------------------------------------------------- order of the steps
\* The handler is past the in-progress write and inside the scan proper.
Scanning == hs.pc \in {"assume", "region", "describe", "store", "storeRet", "complete"}

\* Region i of the request is done: its error is recorded or its volumes are
\* in ebs_volumes.
RegionSettled(q, i) ==
  \/ RecordedError(hs.errors, q.regions[i])
  \/ \A k \in DOMAIN RegionVolumes(q.accountId, q.regions[i]) :
       Persisted(q.tenantId, q.regions[i], RegionVolumes(q.accountId, q.regions[i])[k])

\* The order of the calls: AssumeRole only after a successful validation and
\* the in-progress write, DescribeVolumes only with credentials, and the
\* listing of a region only when the regions before it are settled.
StepsFollow(inProgress) ==
  hs.scan # "" =>
    /\ hs.sts > 0 => (hs.validated /\ hs.isValid)
    /\ Scanning => (hs.validated /\ hs.isValid /\ inProgress)
    /\ hs.ec2 > 0 => (hs.credentials /\ hs.sts = 1)
    /\ hs.pc = "describe" =>
         /\ ops[H].pc = "idle"
         /\ hs.stores < hs.r
         /\ \A i \in 1..(hs.r - 1) : RegionSettled(Req(hs.scan), i)

\* C13: validation succeeds, then the ScanRecord is set to in-progress, then
\* role assumption is called, then the regions are scanned, each region
\* persisted (or failed) before the next is listed.
C13_ScanStepsInOrder ==
  StepsFollow(hs.scan # "" /\ scan_history[hs.scan].status = "in-progress")

\* C13 for the calls alone: the in-progress write was issued, and returned
\* without error, before role assumption.
CallsInOrder ==
  StepsFollow(hs.updates # <<>> /\ hs.updates[1] = "in-progress")
\* C13 holds where the status writes reach the record.
StepsInOrderWhenRecordWritable == ~scanTenantScoped => C13_ScanStepsInOrder
\* ------------------------------------------------------ causes of failed
\* The steps of processScanRequest outside the per-region try block.
OutsideRegionScope ==
  {"validateRet", "inProgressRet", "accountIdRet", "assume", "completeRet"}

\* C14: the status failed is written only by the handler's catch, which is
\* entered only from validation, the in-progress write, the account lookup,
\* role assumption or the final write; a step inside a region's try block
\* never leads there.
C14_FailedOnlyOnHardAbort ==
  [][/\ (hs'.pc = "catch" /\ hs.pc # "catch") => hs.pc \in OutsideRegionScope
     /\ (hs.pc \in {"describe", "store", "storeRet"} /\ hs'.pc # hs.pc) =>
          hs'.pc \in {"region", "store", "storeRet"}
     /\ \A s \in DOMAIN scan_history :
          (scan_history'[s].status = "failed" /\ scan_history[s].status # "failed") =>
            (hs.pc = "catchRet" /\ hs.scan = s)
     /\ (Len(hs'.updates) > Len(hs.updates)
           /\ hs'.updates[Len(hs'.updates)] = "failed") =>
          hs.pc = "catch"]_vars

\* Both regions of a scan failed and the scan ended completed, with no
\* failed update issued.
C14_Witness ==
  /\ hs.scan # "" /\ hs.finished
  /\ Len(hs.errors) = 2
  /\ hs.updates = <<"in-progress", "completed">>
  /\ scan_history[hs.scan].status = "completed"
\* ------------------------------------------------------------- validation
\* Role ARNs and external ids a request can claim and a row can store.
RoleArns == {CustomerRole("111111111111"), CustomerRole("222222222222"),
             OtherRole("111111111111")}
ExternalIds == {generateExternalId("tA", "111111111111"),
                generateExternalId("tB", "111111111111"), "forged"}

\* The rows tenant tA can have for account 111111111111: none or one
\* (UNIQUE(tenant_id, account_id)), with any stored values.
StoredRows ==
  {{}} \cup {{[AccountRow("tA", "111111111111") EXCEPT
                 !.is_active = a, !.role_arn = r, !.external_id = e]} :
               a \in BOOLEAN, r \in RoleArns, e \in ExternalIds}

\* A scan request of tenant tA with any claimed role ARN and external id is
\* queued over any stored row.
InitValidate ==
  /\ pool = 0
  /\ conns = [c \in ConnIds |-> AbsentConn]
  /\ ops = [o \in OpIds |-> IdleOp]
  /\ pending = [c \in ConnIds |-> <<>>]
  /\ ebs_volumes = {}
  /\ scanTenantScoped = TRUE
  /\ \E rows \in StoredRows : aws_accounts = ForeignRows \cup rows
  /\ \E r \in RoleArns, e \in ExternalIds :
       queue = [s \in {"s1"} |->
                  [state |-> "visible", receives |-> 0,
                   body |-> [BaseRequest(s) EXCEPT !.roleArn = r, !.externalId = e]]]
  /\ scan_history = [s \in {"s1"} |-> QueuedRow("tA")]
  /\ event = <<>>
  /\ hs = IdleHandler

\* The handler up to the return of validateAccountOwnership.
NextValidate ==
  \/ Invoke
  \/ NextRecord
  \/ ValidateCall
  \/ GetPool(H)
  \/ CreatePool(H)
  \/ Connect(H)
  \/ Bind(H)
  \/ Statement(H)
  \/ Reset(H)
  \/ Release(H)
  \/ ValidateRet

SpecValidate == InitValidate /\ [][NextValidate]_vars

\* C15: validateAccountOwnership returns true exactly when the tenant-scoped
\* lookup returned a row that is active, stores the claimed role ARN, and
\* whose stored external id and the claimed external id both equal
\* generateExternalId(tenantId, accountId).
C15_ValidIffRowMatches ==
  (hs.scan # "" /\ hs.validated) =>
    LET q == Req(hs.scan)
        expected == generateExternalId(q.tenantId, q.accountId)
    IN hs.isValid <=>
         \E row \in hs.lookup :
           /\ row.is_active
           /\ row.role_arn = q.roleArn
           /\ row.external_id = expected
           /\ q.externalId = expected

\* Validation returned false for an active row with the claimed role ARN
\* whose stored external id equals the claimed one, both different from the
\* recomputed id.
C15_Witness ==
  /\ hs.scan # "" /\ hs.validated /\ ~hs.isValid
  /\ \E row \in hs.lookup :
       /\ row.is_active
       /\ row.role_arn = Req(hs.scan).roleArn
       /\ row.external_id = Req(hs.scan).externalId
       /\ row.external_id # generateExternalId("tA", "111111111111")
\* ------------------------------------------------------------- redelivery
\* The request being processed failed the role-ARN format check of
\* assumeRoleSecurely.
FormatRejected ==
  /\ hs.scan # "" /\ hs.validated /\ hs.isValid /\ hs.accountInternalId # ""
  /\ hs.sts = 0 /\ ~roleArnPattern(Req(hs.scan).roleArn)

\* C16: once a request was rejected by validation or by the role-ARN format
\* check, the handler is not invoked with it again: no redelivery starts
\* another processing of it.
C16_RejectedNeverProcessedAgain ==
  [][(hs.pc = "thrown" /\ (Rejected \/ FormatRejected)) =>
       ~(hs'.pc = "loop" /\ \E i \in DOMAIN event' : event'[i] = hs.scan)]_vars

\* A rejected request is being validated on its third delivery.
RejectedRequestRedelivered ==
  /\ hs.scan # "" /\ Rejected
  /\ queue[hs.scan].receives = maxReceiveCount
  /\ Req(hs.scan) = ScenarioRequest("s1", "claimedExternalId")
\* --------------------------------------------------------- role assumption
\* An AssumeRole request is sent only for a role ARN of the allow-listed
\* form; a request of another form reaches neither STS nor EC2 nor
\* storeVolumes.
FormatGate ==
  hs.scan # "" =>
    /\ hs.sts > 0 => roleArnPattern(Req(hs.scan).roleArn)
    /\ ~roleArnPattern(Req(hs.scan).roleArn) =>
         (hs.sts = 0 /\ hs.ec2 = 0 /\ hs.stores = 0 /\ hs.attempted = <<>>)

\* C17: assumeRoleSecurely sends AssumeRole only for a role ARN of the
\* allow-listed form; for any other it raises the format error without
\* sending anything, no region is scanned and the scan ends failed.
C17_FormatErrorEndsFailed ==
  /\ FormatGate
  /\ (FormatRejected /\ hs.pc \in {"catchRet", "thrown"}) =>
       hs.updates[Len(hs.updates)] = "failed"
  /\ (FormatRejected /\ hs.pc = "thrown") => scan_history[hs.scan].status = "failed"

\* The format error was raised and the handler's failed write returned.
FormatErrorRaised == FormatRejected /\ hs.pc = "thrown" /\ hs.catchOk
\* C17 without the final status: the format error leads to the failed write.
FormatErrorIssuesFailed ==
  /\ FormatGate
  /\ (FormatRejected /\ hs.pc \in {"catchRet", "thrown"}) =>
       hs.updates[Len(hs.updates)] = "failed"
\* Role assumption was attempted for the request and gave no credentials.
AssumeRoleFailed == hs.scan # "" /\ hs.sts > 0 /\ ~hs.credentials

\* After a failed role assumption nothing is scanned or stored, STS is not
\* called again in the invocation, and the handler issues the failed write
\* with the error's message.
AssumeRoleFailureAborts ==
  AssumeRoleFailed =>
    /\ hs.sts = 1 /\ hs.ec2 = 0 /\ hs.stores = 0 /\ hs.attempted = <<>>
    /\ hs.pc \in {"catch", "catchRet", "thrown"}
    /\ hs.pc \in {"catchRet", "thrown"} => hs.updates = <<"in-progress", "failed">>
    /\ hs.pc = "catch" => hs.error \in {"Failed to assume role", "AccessDenied"}

\* C18: when role assumption fails, no region is scanned, no Volume row is
\* written, role assumption is not retried within the invocation, and the
\* ScanRecord is set to failed with an error message.
C18_AssumeRoleFailureEndsFailed ==
  /\ AssumeRoleFailureAborts
  /\ (AssumeRoleFailed /\ hs.pc = "thrown") =>
       /\ scan_history[hs.scan].status = "failed"
       /\ scan_history[hs.scan].error_message \in {"Failed to assume role", "AccessDenied"}
\* ------------------------------------------------------------------ upsert
SameVolume(r, w) == r.tenant_id = w.tenant_id /\ r.volume_id = w.volume_id

\* The rows the open transactions have upserted and not yet committed.
Written == UNION {{pending[c][i] : i \in DOMAIN pending[c]} : c \in ConnIds}

\* C19: a step that changes an existing row of ebs_volumes is the commit of
\* an upsert of the same (tenant, volume id); the row keeps its id, tenant,
\* account reference, volume id and creation time and takes the observed
\* state and scan time of the upsert; rows of other volumes are not changed.
C19_UpsertChangesMutableFieldsOnly ==
  [][\A old \in ebs_volumes :
       \/ old \in ebs_volumes'
       \/ \E w \in Written :
            /\ SameVolume(old, w)
            /\ [old EXCEPT !.state = w.state, !.last_scanned_at = w.last_scanned_at]
                 \in ebs_volumes'
            /\ \A new \in ebs_volumes' : SameVolume(new, old) =>
                 /\ new.id = old.id
                 /\ new.aws_account_id = old.aws_account_id
                 /\ new.created_at = old.created_at]_vars

\* A volume stored by the first delivery was upserted again by the second:
\* the row has the id and creation time of the first and the scan time of the
\* second.
C19_Witness ==
  \E r \in ebs_volumes :
    /\ r.volume_id = "v1" /\ r.tenant_id = "tA"
    /\ r.id = VolumeRow("tA", UpsertVolume("", "v1", "r1", "in-use", 1)).id
    /\ r.created_at = CreateTime("v1")
    /\ r.state = "available"
    /\ r.last_scanned_at = 2

RowsOf(rows, w) == {r \in rows : SameVolume(r, w)}

\* The records storeVolumes has applied or is applying in this state.
Records == Written \cup ebs_volumes

\* Applying record w1 and then record w2 of the same (tenant, volume id) to
\* table rows leaves one row of that key, with the identity fields it had after
\* w1 and the mutable fields of w2; applying w2 once more changes nothing.
AppliedTwice(rows, w1, w2) ==
  LET once == Upsert(rows, w1)
      twice == Upsert(once, w2)
  IN /\ Cardinality(RowsOf(once, w1)) = 1
     /\ Cardinality(RowsOf(twice, w1)) = 1
     /\ \A a \in RowsOf(once, w1) : \A b \in RowsOf(twice, w1) :
          /\ b.id = a.id /\ b.created_at = a.created_at
          /\ b.aws_account_id = a.aws_account_id /\ b.region = a.region
          /\ b.state = w2.state /\ b.last_scanned_at = w2.last_scanned_at
     /\ twice \ RowsOf(twice, w1) = rows \ RowsOf(rows, w1)
     /\ Upsert(twice, w2) = twice

\* C20: the table and every transaction's view of it hold at most one row per
\* (tenant, volume id), and storing a record of a key twice, by a second call
\* or by redelivery of the scan message, leaves exactly one row of that key
\* with the identity of the first application and the values of the last.
C20_UpsertIdempotent ==
  /\ \A r \in ebs_volumes : RowsOf(ebs_volumes, r) = {r}
  /\ \A c \in ConnIds : \A r \in View(c) : RowsOf(View(c), r) = {r}
  /\ \A w1 \in Records : \A w2 \in Records :
       SameVolume(w1, w2) => AppliedTwice(ebs_volumes, w1, w2)

\* The second delivery of the scan stored a volume of the second region
\* again: one row, inserted by the first delivery, scanned by the second.
C20_Witness ==
  /\ queue["s1"].receives = 2
  /\ \E r \in ebs_volumes :
       /\ r.tenant_id = "tA" /\ r.volume_id = "v3"
       /\ r.id = VolumeRow("tA", UpsertVolume("", "v3", "r2", "in-use", 1)).id
       /\ r.last_scanned_at = 2
       /\ Cardinality(RowsOf(ebs_volumes, r)) = 1

\* ------------------------------------------------------ scanVolumesInRegion
\* A number the response does not carry (undefined).
Absent == -1

\* x || 0
OrZero(x) == IF x = Absent \/ x = 0 THEN 0 ELSE x

Max0(x) == IF x > 0 THEN x ELSE 0

\* Variant of the gp3 price without the floor at the included 3000 IOPS.
costPerMonthNoFloor(volume) ==
  LET gbMonth == OrZero(volume.Size)
      iops == OrZero(volume.Iops)
  IN CASE volume.VolumeType = "gp3" -> gbMonth * 80 + (iops - 3000) * 5
       [] volume.VolumeType = "gp2" -> gbMonth * 100
       [] volume.VolumeType \in {"io1", "io2"} -> gbMonth * 125 + iops * 65
       [] volume.VolumeType = "st1" -> gbMonth * 45
       [] volume.VolumeType = "sc1" -> gbMonth * 25
       [] OTHER -> 0

\* The cost switch, in thousandths of a dollar (0.08 is 80, 0.005 is 5).
costPerMonth(volume) ==
  LET gbMonth == OrZero(volume.Size)
      iops == OrZero(volume.Iops)
  IN CASE volume.VolumeType = "gp3" -> gbMonth * 80 + Max0(iops - 3000) * 5
       [] volume.VolumeType = "gp2" -> gbMonth * 100
       [] volume.VolumeType \in {"io1", "io2"} -> gbMonth * 125 + iops * 65
       [] volume.VolumeType = "st1" -> gbMonth * 45
       [] volume.VolumeType = "sc1" -> gbMonth * 25
       [] OTHER -> 0

\* volumes.push({...}): the record of one volume of a response.
VolumeRecord(volume) ==
  [volumeId |-> volume.VolumeId,
   size |-> OrZero(volume.Size),
   volumeType |-> IF volume.VolumeType = Undefined THEN "unknown" ELSE volume.VolumeType,
   iops |-> volume.Iops,
   costPerMonth |-> costPerMonth(volume)]

\* if (response.Volumes) for (const volume of response.Volumes) push
PageRecords(response) ==
  IF response.hasVolumes
  THEN [i \in 1..Len(response.Volumes) |-> VolumeRecord(response.Volumes[i])]
  ELSE <<>>

\* while (nextToken): undefined and the empty string end the loop.
Truthy(token) == token \notin {Undefined, ""}

\* Variant of the request that never passes the continuation token.
RequestTokenFirstPage(nextToken) == Undefined

\* new DescribeVolumesCommand({ NextToken: nextToken, ... })
RequestToken(nextToken) == nextToken

\* Inputs: the volumes EC2 can report and what it answers to each token.
MaxRequests == 4
VolumeTypes == {"gp3", "gp2", "io1", "io2", "st1", "sc1", "standard", Undefined}
Sizes == {Absent, 0, 100}
IopsValues == {Absent, 2999, 3000, 3001, 3500}
DescribedVolumes ==
  {[VolumeId |-> "v1", Size |-> sz, Iops |-> io, VolumeType |-> ty] :
     sz \in Sizes, io \in IopsValues, ty \in VolumeTypes}
LaterVolume(id) == [VolumeId |-> id, Size |-> 100, Iops |-> 3500, VolumeType |-> "gp3"]
RequestTokens == {Undefined, "t1", "t2"}
ResponseTokens == {Undefined, "", "t1", "t2"}

Response(volumes, has, token) ==
  [Volumes |-> volumes, hasVolumes |-> has, NextToken |-> token]

\* What EC2 answers: the first page holds any one volume, the page of t1 two
\* volumes, the page of t2 has no Volumes field; every page can carry any
\* continuation token or none.
Providers ==
  {[t \in RequestTokens |->
      CASE t = Undefined -> Response(<<v>>, TRUE, next[t])
        [] t = "t1" -> Response(<<LaterVolume("v2"), LaterVolume("v3")>>, TRUE, next[t])
        [] OTHER -> Response(<<>>, FALSE, next[t])] :
     v \in DescribedVolumes, next \in [RequestTokens -> ResponseTokens]}

\* The frame of scanVolumesInRegion: const volumes = []; let nextToken.
RegionFrame(provider) ==
  [pc |-> "send", responses |-> provider, nextToken |-> Undefined,
   volumes |-> <<>>, requests |-> <<>>]

InitRegion ==
  /\ pool = 0
  /\ conns = [c \in ConnIds |-> AbsentConn]
  /\ ops = [o \in OpIds |-> IdleOp]
  /\ pending = [c \in ConnIds |-> <<>>]
  /\ ebs_volumes = {}
  /\ aws_accounts = {}
  /\ scan_history = NoScans
  /\ scanTenantScoped = TRUE
  /\ queue = NoScans
  /\ event = <<>>
  /\ \E provider \in Providers : hs = RegionFrame(provider)

\* One pass of the do-block: send the request, push the records of the
\* response, keep its token; ec2.send can throw.
ListPage ==
  /\ hs.pc = "send"
  /\ Len(hs.requests) < MaxRequests
  /\ LET token == RequestToken(hs.nextToken)
         response == hs.responses[token]
     IN \E ok \in BOOLEAN :
          hs' = IF ok
                THEN [hs EXCEPT !.pc = "while",
                                !.requests = Append(@, token),
                                !.volumes = @ \o PageRecords(response),
                                !.nextToken = response.NextToken]
                ELSE [hs EXCEPT !.pc = "thrown", !.requests = Append(@, token)]
  /\ UNCHANGED <<dbvars, aws_accounts, scan_history, scanTenantScoped, queue, event>>

\* } while (nextToken); return volumes;
LoopTest ==
  /\ hs.pc = "while"
  /\ hs' = [hs EXCEPT !.pc = IF Truthy(hs.nextToken) THEN "send" ELSE "returned"]
  /\ UNCHANGED <<dbvars, aws_accounts, scan_history, scanTenantScoped, queue, event>>

NextRegion == ListPage \/ LoopTest

SpecRegion == InitRegion /\ [][NextRegion]_vars

\* The function runs to its next await whenever the response arrives.
SpecRegionFair == SpecRegion /\ WF_vars(NextRegion)

\* The published price of a volume, in thousandths of a dollar.
Price(type, size, iops) ==
  IF type = "gp3" THEN size * 80 + (IF iops > 3000 THEN (iops - 3000) * 5 ELSE 0)
  ELSE IF type = "gp2" THEN size * 100
  ELSE IF type = "io1" \/ type = "io2" THEN size * 125 + iops * 65
  ELSE IF type = "st1" THEN size * 45
  ELSE IF type = "sc1" THEN size * 25
  ELSE 0

\* C21: every volume record carries the price of its type: gp3 pays 0.08 per
\* GB and 0.005 per IOPS above 3000 (none at or below 3000, exactly 500 at
\* 3500), gp2 0.10 per GB, io1/io2 0.125 per GB and 0.065 per IOPS, st1 0.045
\* per GB, sc1 0.025 per GB, and any other or missing type costs 0; a missing
\* size or IOPS counts as 0.
C21_CostFollowsTypeFormula ==
  \A i \in DOMAIN hs.volumes :
    LET rec == hs.volumes[i]
        iops == IF rec.iops = Absent THEN 0 ELSE rec.iops
    IN /\ rec.costPerMonth = Price(rec.volumeType, rec.size, iops)
       /\ (rec.volumeType = "gp3" /\ iops <= 3000) => rec.costPerMonth = rec.size * 80
       /\ (rec.volumeType = "gp3" /\ iops = 3500) => rec.costPerMonth = rec.size * 80 + 500 * 5

\* A gp3 volume of 100 GB was listed below the threshold, and one above it.
C21_Witness ==
  /\ hs.pc = "returned"
  /\ \E i \in DOMAIN hs.volumes :
       /\ hs.volumes[i].volumeType = "gp3" /\ hs.volumes[i].size = 100
       /\ hs.volumes[i].iops = 2999 /\ hs.volumes[i].costPerMonth = 8000
  /\ \E i \in DOMAIN hs.volumes :
       /\ hs.volumes[i].volumeType = "gp3" /\ hs.volumes[i].size = 100
       /\ hs.volumes[i].iops = 3500 /\ hs.volumes[i].costPerMonth = 10500

\* The tokens of the pages from token on, up to the first page that carries
\* no continuation token (at most n pages).
RECURSIVE TokenChain(_, _, _)
TokenChain(provider, token, n) ==
  IF n = 0 THEN <<>>
  ELSE <<token>> \o (IF provider[token].NextToken \in {Undefined, ""} THEN <<>>
                     ELSE TokenChain(provider, provider[token].NextToken, n - 1))

\* The volume ids of the pages of the tokens, in order.
RECURSIVE ListedIds(_, _)
ListedIds(provider, tokens) ==
  IF tokens = <<>> THEN <<>>
  ELSE LET page == provider[Head(tokens)]
       IN (IF page.hasVolumes THEN [i \in 1..Len(page.Volumes) |-> page.Volumes[i].VolumeId]
           ELSE <<>>) \o ListedIds(provider, Tail(tokens))

\* The provider reaches a page without a token within the pages it has.
Exhaustible(provider) ==
  LET chain == TokenChain(provider, Undefined, MaxRequests)
  IN provider[chain[Len(chain)]].NextToken \in {Undefined, ""}

RecordIds(volumes) == [i \in 1..Len(volumes) |-> volumes[i].volumeId]

PagesInTokenOrder ==
  LET chain == TokenChain(hs.responses, Undefined, MaxRequests)
  IN /\ IsPrefix(hs.requests, chain)
     /\ hs.pc = "while" => RecordIds(hs.volumes) = ListedIds(hs.responses, hs.requests)
     /\ hs.pc = "returned" =>
          /\ hs.requests = chain
          /\ hs.nextToken \in {Undefined, ""}
          /\ RecordIds(hs.volumes) = ListedIds(hs.responses, chain)

\* C26: the requests of scanVolumesInRegion are the first request without a
\* token followed by one request per continuation token, each passing the
\* token of the previous response; the function returns at the first response
\* whose token is missing or empty, with the volumes of all requested pages in
\* order; and when the provider's pages lead to a page without a token the
\* function ends (returns, or throws the error of a failed request).
C26_PagesUntilNoToken ==
  /\ []PagesInTokenOrder
  /\ Exhaustible(hs.responses) => <>(hs.pc \in {"returned", "thrown"})

\* Three pages were requested, the last one under an empty-string token, and
\* the four volumes of the first two came back in order.
C26_Witness ==
  /\ hs.pc = "returned"
  /\ hs.requests = <<Undefined, "t1", "t2">>
  /\ hs.nextToken = ""
  /\ RecordIds(hs.volumes) = <<"v1", "v2", "v3">>

\* ------------------------------------------------------- opaque rejections
\* What the ScanRecord of a request rejected by validateAccountOwnership
\* shows once the handler's failed write has returned: the one message of
\* processScanRequest, or nothing where the write reaches no record.
RejectionOutcome ==
  IF scanTenantScoped THEN <<"queued", "">>
  ELSE <<"failed", "Invalid account credentials or ownership">>

Outcome(s) == <<scan_history[s].status, scan_history[s].error_message>>

\* C22: two requests rejected for security reasons (account not found or
\* inactive, role ARN or external id mismatch, malformed role ARN) leave the
\* same status and error message in their ScanRecords: every such record
\* shows the outcome the others show.
C22_RejectionsIndistinguishable ==
  ((Rejected \/ FormatRejected) /\ hs.pc = "thrown" /\ hs.catchOk) =>
    Outcome(hs.scan) = RejectionOutcome

\* The rejections of validateAccountOwnership are indistinguishable among
\* themselves.
ValidationRejectionsIndistinguishable ==
  (Rejected /\ hs.pc = "thrown" /\ hs.catchOk) => Outcome(hs.scan) = RejectionOutcome

\* A request with a malformed role ARN left the message of the format check
\* in its record.
FormatRejectionVisible ==
  /\ FormatRejected /\ hs.pc = "thrown" /\ hs.catchOk
  /\ Outcome(hs.scan) = <<"failed", "Invalid role ARN format">>

\* ------------------------------------------------------ incomplete requests
\* The fields of ScanRequest a message body can lack (scanId is the key the
\* scans are named by here).
RequestFields == {"tenantId", "accountId", "roleArn", "externalId", "regions"}

\* JSON.parse(record.body) of a message without field f.
Without(body, f) ==
  IF f = "none" THEN body
  ELSE [body EXCEPT ![f] = IF f = "regions" THEN NoRegions ELSE Undefined]

MissingField(body) ==
  \E f \in RequestFields : body[f] = (IF f = "regions" THEN NoRegions ELSE Undefined)

\* The scan queue holds one message of tenant tA, complete or lacking one
\* field.
InitIncomplete ==
  /\ pool = 0
  /\ conns = [c \in ConnIds |-> AbsentConn]
  /\ ops = [o \in OpIds |-> IdleOp]
  /\ pending = [c \in ConnIds |-> <<>>]
  /\ ebs_volumes = {}
  /\ scanTenantScoped \in BOOLEAN
  /\ aws_accounts = ForeignRows \cup {AccountRow("tA", "111111111111")}
  /\ \E sc \in {"valid", "emptyRegion"}, f \in RequestFields \cup {"none"} :
       queue = [s \in {"s1"} |->
                  [state |-> "visible", receives |-> 0,
                   body |-> Without(ScenarioRequest(s, sc), f)]]
  /\ scan_history = [s \in {"s1"} |-> QueuedRow("tA")]
  /\ event = <<>>
  /\ hs = IdleHandler

SpecIncomplete == InitIncomplete /\ [][Next]_vars

\* C23: for a request that lacks a required field the handler sends no
\* database statement, makes no role-assumption call and issues no status
\* update.
C23_IncompleteRequestHasNoSideEffect ==
  (hs.scan # "" /\ MissingField(Req(hs.scan))) =>
    /\ ops[H] = IdleOp
    /\ hs.sts = 0
    /\ hs.updates = <<>>

\* A request without its regions went through validation, the in-progress
\* write and role assumption before it failed.
IncompleteRequestAssumedRole ==
  /\ hs.scan # "" /\ Req(hs.scan).regions = NoRegions
  /\ hs.sts = 1 /\ hs.credentials
  /\ hs.updates = <<"in-progress", "failed">>

\* A request without its externalId was looked up in aws_accounts and marked
\* failed.
IncompleteRequestQueried ==
  /\ hs.scan # "" /\ Req(hs.scan).externalId = Undefined
  /\ hs.validated /\ hs.lookup # {}
  /\ hs.updates = <<"failed">>

\* The scan request API queues no request that lacks the tenant, accountId,
\* roleArn or externalId.
ApiQueuesNoIncompleteRequest ==
  \A s \in DOMAIN queue :
    LET b == queue[s].body
    IN b.tenantId # "" /\ b.accountId # "" /\ b.roleArn # "" /\ b.externalId # ""

\* ------------------------------------------------- status updates and RLS
\* The handler's database call is a call of updateScanStatus.
IsStatusUpdate(op) == op.stmts # <<>> /\ op.stmts[1].t = "updScan"

\* C24: every UPDATE of updateScanStatus runs in a session bound to the
\* placeholder "system", never to the tenant of the scan request, and with the
\* policy of scan_history in force it changes no record.
C24_StatusUpdatesRunAsSystem ==
  [][(IsStatusUpdate(ops[H]) /\ ops[H].pc = "stmt" /\ ops'[H].log # ops[H].log) =>
       /\ ops[H].tenant = SystemTenant
       /\ ops'[H].ctxs \subseteq {SystemTenant}
       /\ Req(hs.scan).tenantId \notin ops'[H].ctxs
       /\ scanTenantScoped =>
            /\ ~ScanRowMatches(ops[H].stmts[1].scan, conns[ops[H].conn].ctx)
            /\ scan_history' = scan_history]_vars

\* With the policy in force the in-progress UPDATE ran under "system" and
\* returned, and the record of the scan is still queued.
C24_Witness ==
  /\ scanTenantScoped
  /\ hs.pc = "inProgressRet" /\ ops[H].pc = "done" /\ ops[H].err = "none"
  /\ ops[H].ctxs = {SystemTenant}
  /\ scan_history[hs.scan] = QueuedRow("tA")

\* ------------------------------------------------------ connection release
\* Connections checked out of the pool that no running operation will return.
Leaked == {c \in ConnIds : conns[c].state = "leaked"}

\* C25: a connection acquired by queryWithTenant or transactionWithTenant is
\* back in the pool when the call has returned or thrown, whichever statement
\* failed, so that failing calls leave no connection checked out.
C25_AcquiredConnectionsReleased ==
  /\ \A o \in OpIds : Finished(o) => ~ops[o].holds
  /\ Leaked = {}

\* The one exit that keeps the connection: the reset statement itself failed,
\* and client.release() after it was not reached.
ReleasedUnlessResetFails ==
  \A o \in OpIds :
    (Finished(o) /\ ops[o].holds) =>
      /\ ops[o].log[Len(ops[o].log)] = "RESET"
      /\ ops[o].err = "reset"

\* Each of two failing calls left its connection checked out.
LeaksAccumulate ==
  /\ \A o \in OpIds : Finished(o) /\ ops[o].holds
  /\ Cardinality(Leaked) = NumOps

\* --------------------------------------------------- persistence of a region
Range(seq) == {seq[i] : i \in DOMAIN seq}

\* The volumes EC2 lists for a region of the request being processed.
Listed(region) == Range(RegionVolumes(Req(hs.scan).accountId, region))

\* The listed volumes of the region whose rows this delivery of the scan has
\* written: rows of the tenant carrying the scan time of this delivery.
WrittenNow(region) ==
  {v \in Listed(region) :
     \E row \in ebs_volumes :
       /\ row.tenant_id = Req(hs.scan).tenantId /\ row.volume_id = v
       /\ row.last_scanned_at = ScannedAt}

StoreReturned == hs.pc = "storeRet" /\ ops[H].pc = "done"

\* C27: at every moment of a scan each region has either all of its listed
\* volumes upserted by this scan or none; when the upserts of a region come
\* back committed all are there, and when listing failed on some page or the
\* transaction failed before its COMMIT, none is.
C27_RegionAllOrNothing ==
  hs.scan # "" =>
    LET q == Req(hs.scan)
    IN /\ \A i \in DOMAIN q.regions :
            LET region == q.regions[i]
            IN /\ WrittenNow(region) \in {{}, Listed(region)}
               /\ i > hs.r => WrittenNow(region) = {}
               /\ (\E j \in DOMAIN hs.errors :
                     hs.errors[j] = region \o ": DescribeVolumes failed") =>
                    WrittenNow(region) = {}
       /\ hs.pc \in {"describe", "store"} => WrittenNow(q.regions[hs.r]) = {}
       /\ (StoreReturned /\ ops[H].failed \in {"none", "reset"}) =>
            WrittenNow(q.regions[hs.r]) = Listed(q.regions[hs.r])
       /\ (StoreReturned /\ ops[H].failed \notin {"none", "reset", "commit"}) =>
            WrittenNow(q.regions[hs.r]) = {}

\* The second upsert of a region's transaction failed after the first had
\* succeeded, and the region has no row.
C27_Witness ==
  /\ StoreReturned
  /\ ops[H].failed = "body" /\ ops[H].i = 2
  /\ Has(ops[H].log, "ROLLBACK")
  /\ Listed(Req(hs.scan).regions[hs.r]) = {"v1", "v2"}
  /\ WrittenNow(Req(hs.scan).regions[hs.r]) = {}

\* ------------------------------------------------------ failing closed
\* The account lookup of validateAccountOwnership threw for the request being
\* processed.
LookupFailed == hs.scan # "" /\ hs.validated /\ hs.lookupThrew

\* When the lookup throws, validateAccountOwnership returns false: the error
\* does not propagate, neither STS nor EC2 nor storeVolumes is reached, and
\* the handler issues the failed write with the message of a rejection.
ValidationErrorFailsClosed ==
  LookupFailed =>
    /\ ~hs.isValid
    /\ hs.sts = 0 /\ hs.ec2 = 0 /\ hs.stores = 0 /\ hs.attempted = <<>>
    /\ hs.pc \in {"catch", "catchRet", "thrown"}
    /\ hs.pc = "catch" => hs.error = "Invalid account credentials or ownership"
    /\ hs.pc \in {"catchRet", "thrown"} => hs.updates = <<"failed">>

\* C28: when the account lookup throws, validation returns false instead of
\* propagating the error, no role assumption and no region scan follows, and
\* the scan ends failed.
C28_LookupErrorEndsFailed ==
  /\ ValidationErrorFailsClosed
  /\ (LookupFailed /\ hs.pc = "thrown") => scan_history[hs.scan].status = "failed"

\* The lookup for a request that would have passed every check threw, and
\* the handler's failed write returned.
LookupFailedOnOwnedAccount ==
  /\ LookupFailed /\ hs.pc = "thrown" /\ hs.catchOk
  /\ Req(hs.scan) = ScenarioRequest("s1", "valid")
  /\ AccountRow("tA", "111111111111") \in aws_accounts

\* ------------------------------------------------------------------ batches
\* Two scans are queued, one of each tenant, both delivered twice before to
\* invocations that failed when creating the pool: the next delivery is the
\* last. Tenant tB's account is registered or not.
InitBatch ==
  /\ pool = 0
  /\ conns = [c \in ConnIds |-> AbsentConn]
  /\ ops = [o \in OpIds |-> IdleOp]
  /\ pending = [c \in ConnIds |-> <<>>]
  /\ ebs_volumes = {}
  /\ scanTenantScoped \in BOOLEAN
  /\ \E sc \in [{"s1", "s2"} -> {"valid", "absent"}] :
       /\ aws_accounts = UNION {ScenarioRows(s, sc[s]) : s \in {"s1", "s2"}}
       /\ queue = [s \in {"s1", "s2"} |->
                     [state |-> "visible", receives |-> maxReceiveCount - 1,
                      body |-> ScenarioRequest(s, sc[s])]]
  /\ scan_history = [s \in {"s1", "s2"} |-> QueuedRow(BaseRequest(s).tenantId)]
  /\ event = <<>>
  /\ hs = IdleHandler

SpecBatch == InitBatch /\ [][Next]_vars

\* The handler is in its catch clause or has rethrown.
Failing == hs.pc \in {"catch", "catchRet", "thrown"}

\* The records of the batch before the one being processed.
Earlier == {event[i] : i \in 1..(hs.idx - 1) \cap DOMAIN event}

\* One step of an invocation over a batch: records are taken up one at a
\* time in order, each after the one before it completed; from its catch
\* clause the handler issues the failed write for the record and rethrows,
\* taking up no later record; after the throw the invocation does nothing;
\* the ScanRecords of the records processed before, and of every scan other
\* than the one being processed, are not changed.
StopsAtFirstFailure ==
  /\ (hs'.scan # hs.scan /\ hs'.scan # "") =>
       /\ hs.pc = "loop" /\ hs'.scan = event[hs.idx] /\ hs'.idx = hs.idx
       /\ hs.idx > 1 => (hs.scan = event[hs.idx - 1] /\ hs.finished)
  /\ hs'.idx # hs.idx =>
       \/ hs'.idx = hs.idx + 1 /\ hs.pc = "completeRet" /\ hs'.pc = "loop"
       \/ hs'.idx = 1 /\ hs'.scan = ""
  /\ hs.pc \in {"catch", "catchRet"} =>
       /\ hs'.scan = hs.scan /\ hs'.idx = hs.idx /\ Failing'
       /\ hs'.pc = "thrown" => (event' = <<>> /\ hs'.updates[Len(hs'.updates)] = "failed")
  /\ hs.pc = "thrown" => (ops' = ops /\ scan_history' = scan_history /\ ebs_volumes' = ebs_volumes)
  /\ Failing => \A s \in Earlier : scan_history'[s] = scan_history[s]
  /\ \A s \in DOMAIN scan_history : s # hs.scan => scan_history'[s] = scan_history[s]

\* C29: the handler takes the records of the batch one at a time in order;
\* when a record fails its scan is marked failed and the handler rethrows: no
\* later record of the batch is taken up by that invocation, and the
\* ScanRecords of the records processed before are not changed any more.
C29_BatchStopsAtFirstFailure ==
  [][/\ StopsAtFirstFailure
     /\ (hs.pc = "catchRet" /\ hs'.pc = "thrown") =>
          scan_history'[hs.scan].status = "failed"]_vars

\* C29 without the final status of the failed record.
BatchStopsAtFirstFailure == [][StopsAtFirstFailure]_vars

\* In a batch of two the first scan completed and the second was rejected:
\* the invocation has thrown, the first record is still completed, the
\* second failed.
CompletedRecordKeptAfterFailure ==
  /\ hs.pc = "thrown" /\ hs.idx = 2 /\ hs.scan = "s2"
  /\ queue["s1"].receives = maxReceiveCount /\ queue["s2"].receives = maxReceiveCount
  /\ queue["s1"].state = "visible"
  /\ scan_history["s1"].status = "completed"
  /\ scan_history["s2"].status = "failed"

\* The first record of a batch of two failed: the second was received with
\* it, and nothing was done for it.
SecondRecordSkipped ==
  /\ hs.pc = "thrown" /\ hs.idx = 1 /\ hs.scan = "s1"
  /\ queue["s2"].receives = maxReceiveCount /\ queue["s2"].state = "visible"
  /\ scan_history["s2"] = QueuedRow("tB")
  /\ ebs_volumes = {}

\* --------------------------------------------------------------- one pool
\* The Pool objects operations have borrowed connections from.
PoolsInUse == {ops[o].pool : o \in {x \in OpIds : ops[x].conn # 0}}

\* C30: the db object creates at most one pool, however its first calls
\* interleave, and every operation borrows its connection from that pool.
C30_AtMostOnePool ==
  /\ pool <= 1
  /\ Cardinality(PoolsInUse) <= 1
  /\ \A c \in ConnIds : conns[c].state # "absent" => conns[c].pool = pool

\* Two first calls both found this.pool empty before either had created it:
\* each created a pool and took its connection from its own.
TwoPoolsCreated ==
  /\ pool = 2
  /\ \E o1, o2 \in OpIds :
       /\ ops[o1].pool = 1 /\ ops[o1].conn # 0
       /\ ops[o2].pool = 2 /\ ops[o2].conn # 0
       /\ conns[ops[o1].conn].pool = 1 /\ conns[ops[o2].conn].pool = 2

\* Calls made one after the other, as the scanner handler makes them, share
\* one pool.
SequentialCallsShareOnePool ==
  /\ pool <= 1
  /\ \A c \in ConnIds : conns[c].state # "absent" => conns[c].pool = 1
====
